---- MODULE Spec2Model ----
(***************************************************************************)
(* Model of crates/cli/src/shim.rs: create_shims reads a TypeScript        *)
(* interface file, extracts the Interface of the module "main"             *)
(* (parse_module, parse_module_decl) and emits a wasm module of thunks     *)
(* (generate_export_wasm_shim).                                            *)
(*                                                                         *)
(* The syntax tree is the one swc hands to the code, reduced to the node   *)
(* kinds the code distinguishes.  Function names are byte strings          *)
(* (sequences of byte values) because the emitter orders them with         *)
(* String::cmp, which is bytewise lexicographic.                            *)
(***************************************************************************)
EXTENDS Integers, Sequences, FiniteSets, TLC

\* ------------------------------------------------------------------ bounds
MaxSize == 3        \* statements plus namespace items of one file
MaxParams == 1      \* parameters of one function declaration
MaxDiags == 1       \* recoverable syntax diagnostics of one file

\* ------------------------------------------------------- the syntax tree
\* Function names: "a", "al", "z" as bytes.
FnNames == { <<97>>, <<97, 108>>, <<122>> }

\* A return type annotation: fndecl.function.return_type.
\*   ann        "None" (no annotation), "TsTypeRef", or another TsType kind
\*   type_name  "Ident" or "TsQualifiedName" (TsEntityName)
\*   sym        the identifier (of the leftmost name when qualified)
\*   type_params  TRUE for Foo<T>
RetType(ann, tn, sym, tp) ==
    [ann |-> ann, type_name |-> tn, sym |-> sym, type_params |-> tp]

RetI32 == RetType("TsTypeRef", "Ident", "I32", FALSE)

RetTypes ==
    { RetType("None", "Ident", "", FALSE),
      RetI32,
      RetType("TsTypeRef", "Ident", "Foo", FALSE),
      RetType("TsTypeRef", "Ident", "Foo", TRUE),
      RetType("TsTypeRef", "TsQualifiedName", "ns", FALSE),
      RetType("TsUnionType", "Ident", "", FALSE) }

\* An item of a namespace block (ModuleItem).
\*   kind  "ExportFn"    export function f(..): T;
\*         "ExportOther" another exported declaration (const, type, namespace)
\*         "Stmt"        an item that is not an export declaration
Item(kind, ident, nparams, ret) ==
    [kind |-> kind, ident |-> ident, nparams |-> nparams, return_type |-> ret]

Items ==
    { Item("ExportFn", n, 0, RetI32) : n \in FnNames }
    \cup { Item("ExportFn", <<97>>, p, r) : p \in 0..MaxParams, r \in RetTypes }
    \cup { Item("ExportOther", <<97>>, 0, RetI32), Item("Stmt", <<97>>, 0, RetI32) }

\* A top-level statement (ModuleItem of the file).
\*   kind       "TsModule" (namespace / declare module) or "Other"
\*   id         TsModuleName: kind "Str" ("main") or "Ident" (main)
\*   body_kind  "TsModuleBlock" ({ ... }) or "None" (declare module "main";)
\* A body of kind TsNamespaceDecl (namespace a.b {}) comes with an
\* identifier name only, and such a name is refused before the body is read.
Statement(kind, idk, idv, bk, body) ==
    [kind |-> kind, id |-> [kind |-> idk, value |-> idv], body_kind |-> bk, body |-> body]

\* Sequences over S of length exactly n.
RECURSIVE SeqsOfLen(_, _)
SeqsOfLen(S, n) ==
    IF n = 0 THEN { <<>> }
    ELSE { <<x>> \o t : x \in S, t \in SeqsOfLen(S, n - 1) }

\* Statements holding exactly n items.
StatementsWith(n) ==
    { Statement("TsModule", "Str", "main", "TsModuleBlock", b) : b \in SeqsOfLen(Items, n) }
    \cup (IF n # 0 THEN {}
          ELSE { Statement("Other", "Str", "", "None", <<>>),
                 Statement("TsModule", "Str", "other", "TsModuleBlock", <<>>),
                 Statement("TsModule", "Ident", "main", "TsModuleBlock", <<>>),
                 Statement("TsModule", "Str", "main", "None", <<>>) })

\* Files of size at most n, the size being statements plus items.
RECURSIVE Files(_)
Files(n) ==
    IF n = 0 THEN { <<>> }
    ELSE { <<>> } \cup
         UNION { { <<st>> \o rest : st \in StatementsWith(k), rest \in Files(n - 1 - k) }
                 : k \in 0..(n - 1) }

\* What the front end makes of the input text: a fatal error (parse_module
\* of the parser returns Err), or a tree together with the recoverable
\* diagnostics the parser collects while it builds the tree.
Inputs ==
    { [fatal |-> TRUE, diags |-> d, module |-> <<>>] : d \in 0..MaxDiags }
    \cup { [fatal |-> FALSE, diags |-> d, module |-> m] :
             d \in 0..MaxDiags, m \in Files(MaxSize) }

\* ------------------------------------------------------------ data model
Param(name, ptype) == [name |-> name, ptype |-> ptype]

Signature(name, params, results) ==
    [name |-> name, params |-> params, results |-> results]

Interface(name, functions) == [name |-> name, functions |-> functions]

\* Option<&str>
None == [some |-> FALSE, value |-> ""]
Some(v) == [some |-> TRUE, value |-> v]

\* anyhow::Result: Ok(val) or Err(error); an error is its message and, for
\* the one message that formats a value, the value formatted.
Ok(v) == [ok |-> TRUE, val |-> v, err |-> [msg |-> "", name |-> None]]
Err(msg, name) == [ok |-> FALSE, val |-> <<>>, err |-> [msg |-> msg, name |-> name]]

\* ------------------------------------------------------------ extraction
\* The body of the `if let Some(fndecl)` branch: one Signature, or the
\* error of the first `?`.
FnSignature(fndecl) ==
    LET name == fndecl.ident
        params == [i \in 1..fndecl.nparams |-> Param("c", "I32")]
        rt == fndecl.return_type
    IN  IF rt.ann = "None" THEN Err("Missing return type", None)
        ELSE IF rt.ann # "TsTypeRef" THEN Err("Illegal return type", None)
        ELSE IF rt.type_name # "Ident" THEN Err("Illegal return type", None)
        ELSE Ok(Signature(name, params, << Param("result", rt.sym) >>))

\* The loop over block.body from item i on, signatures being the vector
\* built so far.
RECURSIVE BlockLoop(_, _, _)
BlockLoop(body, i, signatures) ==
    IF i > Len(body) THEN Ok(signatures)
    ELSE LET decl == body[i] IN
         IF decl.kind \in {"ExportFn", "ExportOther"}
         THEN IF decl.kind = "ExportFn"
              THEN LET r == FnSignature(decl) IN
                   IF r.ok THEN BlockLoop(body, i + 1, Append(signatures, r.val))
                   ELSE r
              ELSE BlockLoop(body, i + 1, signatures)
         ELSE Err("Don't know what to do with non export on main module", None)

parse_module_decl(tsmod) ==
    LET r == IF tsmod.body_kind = "TsModuleBlock"
             THEN BlockLoop(tsmod.body, 1, <<>>)
             ELSE Ok(<<>>)
    IN  IF r.ok THEN Ok(Interface("main", r.val)) ELSE r

\* The loop over module.body from statement i on.
RECURSIVE ModuleLoop(_, _, _)
ModuleLoop(body, i, interfaces) ==
    IF i > Len(body) THEN Ok(interfaces)
    ELSE LET statement == body[i] IN
         IF statement.kind = "TsModule"
         THEN LET name == IF statement.id.kind = "Str"
                          THEN Some(statement.id.value)
                          ELSE None
              IN  IF name = Some("main")
                  THEN LET r == parse_module_decl(statement) IN
                       IF r.ok THEN ModuleLoop(body, i + 1, Append(interfaces, r.val))
                       ELSE r
                  ELSE Err("Could not parse module with name", name)
         ELSE ModuleLoop(body, i + 1, interfaces)

parse_module(module) == ModuleLoop(module, 1, <<>>)

\* -------------------------------------------------------------- emission
\* String::cmp on the bytes of two names: -1 (Less), 0 (Equal), 1 (Greater).
RECURSIVE cmp(_, _)
cmp(a, b) ==
    IF a = <<>> /\ b = <<>> THEN 0
    ELSE IF a = <<>> THEN -1
    ELSE IF b = <<>> THEN 1
    ELSE IF Head(a) < Head(b) THEN -1
    ELSE IF Head(a) > Head(b) THEN 1
    ELSE cmp(Tail(a), Tail(b))

\* One insertion of a stable sort: x goes behind every element that does
\* not compare Greater than it.
RECURSIVE InsertByName(_, _)
InsertByName(sorted, x) ==
    IF sorted = <<>> THEN << x >>
    ELSE IF cmp(Head(sorted).name, x.name) = 1 THEN << x >> \o sorted
    ELSE << Head(sorted) >> \o InsertByName(Tail(sorted), x)

\* sort_by left out: the exports in declaration order.
sort_by_nothing(functions) == functions

\* export_functions.sort_by(|a, b| a.name.cmp(&b.name)): slice::sort_by is
\* a stable sort.
RECURSIVE sort_by(_)
sort_by(functions) ==
    IF functions = <<>> THEN <<>>
    ELSE InsertByName(sort_by(SubSeq(functions, 1, Len(functions) - 1)),
                      functions[Len(functions)])

FuncType(params, results) == [params |-> params, results |-> results]

\* __invoke's type, then the type of the Extism exports.
TypeSection ==
    << FuncType(<< "I32" >>, << "I32" >>), FuncType(<<>>, << "I32" >>) >>

ImportSection ==
    << [module |-> "coremod", field |-> "__invoke", kind |-> "Function", index |-> 0] >>

\* FunctionSection with the type index of the import.
FunctionSectionOfImportType(exports) ==
    [i \in 1..Len(exports.functions) |-> 0]

\* One entry of type_index 1 per function of the interface.
FunctionSection(exports) ==
    [i \in 1..Len(exports.functions) |-> 1]

\* ExportSection with func_index started at 0, the index of the import.
ExportSectionFromZero(exports) ==
    LET export_functions == sort_by(exports.functions)
    IN  [k \in 1..Len(export_functions) |->
            [name |-> export_functions[k].name, kind |-> "Func", index |-> 0 + (k - 1)]]

\* func_index starts at 1 and is incremented after each export.
ExportSection(exports) ==
    LET export_functions == sort_by(exports.functions)
    IN  [k \in 1..Len(export_functions) |->
            [name |-> export_functions[k].name, kind |-> "Func", index |-> 1 + (k - 1)]]

Instruction(op, arg) == [op |-> op, arg |-> arg]

\* export_idx starts at 0 and is incremented after each thunk.
CodeSection(exports) ==
    [i \in 1..Len(exports.functions) |->
        << Instruction("I32Const", 0 + (i - 1)),
           Instruction("Call", 0),
           Instruction("End", 0) >>]

\* The module of generate_export_wasm_shim, its sections in the order of
\* the wasm_mod.section() calls.
WasmModule(exports) ==
    [order |-> << "Type", "Import", "Function", "Export", "Code" >>,
     types |-> TypeSection,
     imports |-> ImportSection,
     functions |-> FunctionSection(exports),
     exports |-> ExportSection(exports),
     codes |-> CodeSection(exports)]

\* wasm_mod before any section is set.
EmptyModule ==
    [order |-> <<>>, types |-> <<>>, imports |-> <<>>, functions |-> <<>>,
     exports |-> <<>>, codes |-> <<>>]

\* interfaces.iter().find(|i| i.name == "main")
RECURSIVE find_main(_, _)
find_main(interfaces, i) ==
    IF i > Len(interfaces) THEN Err("You need to declare a 'main' module", None)
    ELSE IF interfaces[i].name = "main" THEN Ok(interfaces[i])
    ELSE find_main(interfaces, i + 1)

\* --------------------------------------------------------- create_shims
VARIABLES
    input,          \* the interface file as the front end sees it
    pc,             \* where create_shims stands
    parser_errors,  \* diagnostics the parser holds and has not handed out
    logged,         \* diagnostics logged with log::warn!
    module,         \* the tree parser.parse_module() returned
    interfaces,     \* what parse_module returned
    exports,        \* the interface found by name, in a sequence of 0 or 1
    wasm_mod,       \* the module built by generate_export_wasm_shim
    file,           \* the output file: "absent", "created", "partial", "written"
    file_bytes,     \* the content of the written file, in a sequence of 0 or 1
    result          \* what create_shims returned, in a sequence of 0 or 1

vars == << input, pc, parser_errors, logged, module, interfaces, exports,
           wasm_mod, file, file_bytes, result >>

Panic == [ok |-> FALSE, val |-> <<>>, err |-> [msg |-> "panic: failed to parser module", name |-> None]]

Init ==
    /\ input \in Inputs
    /\ pc = "load_file"
    /\ parser_errors = 0
    /\ logged = 0
    /\ module = <<>>
    /\ interfaces = <<>>
    /\ exports = <<>>
    /\ wasm_mod = EmptyModule
    /\ file = "absent"
    /\ file_bytes = <<>>
    /\ result = <<>>

\* cm.load_file(&interface_path)?
LoadFile ==
    /\ pc = "load_file"
    /\ \E io_ok \in BOOLEAN :
         IF io_ok
         THEN pc' = "new_parser" /\ result' = result
         ELSE pc' = "returned" /\ result' = << Err("io: load_file", None) >>
    /\ UNCHANGED << input, parser_errors, logged, module, interfaces, exports,
                    wasm_mod, file, file_bytes >>

\* Parser::new_from(lexer); parser.take_errors() and the check of what it
\* returned.  Nothing has been lexed or parsed yet: parse_errs is the
\* parser's buffer as it stands after construction.
TakeErrors ==
    /\ pc = "new_parser"
    /\ LET parse_errs == parser_errors IN
         /\ parser_errors' = 0
         /\ IF parse_errs # 0
            THEN /\ logged' = logged + parse_errs
                 /\ pc' = "returned"
                 /\ result' = << Err("Failed to parse typescript interface file.", None) >>
            ELSE /\ logged' = logged
                 /\ pc' = "parse"
                 /\ result' = result
    /\ UNCHANGED << input, module, interfaces, exports, wasm_mod, file, file_bytes >>

\* parser.parse_module().expect("failed to parser module"): the front end
\* builds the tree and collects its recoverable diagnostics on the way.
FrontEndParse ==
    /\ pc = "parse"
    /\ parser_errors' = parser_errors + input.diags
    /\ IF input.fatal
       THEN /\ pc' = "panicked"
            /\ result' = << Panic >>
            /\ module' = module
       ELSE /\ pc' = "extract"
            /\ result' = result
            /\ module' = input.module
    /\ UNCHANGED << input, logged, interfaces, exports, wasm_mod, file, file_bytes >>

\* let interfaces = parse_module(module)?;
Extract ==
    /\ pc = "extract"
    /\ LET r == parse_module(module) IN
         IF r.ok
         THEN /\ interfaces' = r.val
              /\ pc' = "find"
              /\ result' = result
         ELSE /\ interfaces' = interfaces
              /\ pc' = "returned"
              /\ result' = << r >>
    /\ UNCHANGED << input, parser_errors, logged, module, exports, wasm_mod,
                    file, file_bytes >>

\* FindMain with an empty interface in place of the error.
FindMainOrEmpty ==
    /\ pc = "find"
    /\ LET r == find_main(interfaces, 1) IN
         exports' = << IF r.ok THEN r.val ELSE Interface("main", <<>>) >>
    /\ pc' = "emit"
    /\ UNCHANGED << input, parser_errors, logged, module, interfaces, wasm_mod,
                    file, file_bytes, result >>

\* .find(|i| i.name == "main").context("You need to declare a 'main' module")?
FindMain ==
    /\ pc = "find"
    /\ LET r == find_main(interfaces, 1) IN
         IF r.ok
         THEN /\ exports' = << r.val >>
              /\ pc' = "emit"
              /\ result' = result
         ELSE /\ exports' = exports
              /\ pc' = "returned"
              /\ result' = << r >>
    /\ UNCHANGED << input, parser_errors, logged, module, interfaces, wasm_mod,
                    file, file_bytes >>

\* generate_export_wasm_shim up to wasm_mod.finish()
BuildModule ==
    /\ pc = "emit"
    /\ wasm_mod' = WasmModule(exports[1])
    /\ pc' = "create"
    /\ UNCHANGED << input, parser_errors, logged, module, interfaces, exports,
                    file, file_bytes, result >>

\* File::create(export_path)?
FileCreate ==
    /\ pc = "create"
    /\ \E io_ok \in BOOLEAN :
         IF io_ok
         THEN file' = "created" /\ pc' = "write" /\ result' = result
         ELSE file' = file /\ pc' = "returned"
              /\ result' = << Err("io: create", None) >>
    /\ UNCHANGED << input, parser_errors, logged, module, interfaces, exports,
                    wasm_mod, file_bytes >>

\* file.write_all(wasm_bytes.as_ref())?; Ok(())
FileWrite ==
    /\ pc = "write"
    /\ \E io_ok \in BOOLEAN :
         IF io_ok
         THEN /\ file' = "written"
              /\ file_bytes' = << wasm_mod >>
              /\ result' = << Ok(<<>>) >>
         ELSE /\ file' = "partial"
              /\ file_bytes' = file_bytes
              /\ result' = << Err("io: write_all", None) >>
    /\ pc' = "returned"
    /\ UNCHANGED << input, parser_errors, logged, module, interfaces, exports,
                    wasm_mod >>

Next ==
    \/ LoadFile
    \/ TakeErrors
    \/ FrontEndParse
    \/ Extract
    \/ FindMain
    \/ BuildModule
    \/ FileCreate
    \/ FileWrite

Spec == Init /\ [][Next]_vars

\* ---------------------------------------------------- reading the state
\* generate_export_wasm_shim has built its module.
Emitted == wasm_mod.order # <<>>

\* The interface handed to the emitter.
TheExports == exports[1]

NamesOf(functions) == [i \in 1..Len(functions) |-> functions[i].name]

\* A sequence of names in non-decreasing / strictly ascending byte order.
NonDecreasing(names) ==
    \A i \in 1..(Len(names) - 1) : cmp(names[i], names[i + 1]) # 1

StrictlyAscending(names) ==
    \A i \in 1..(Len(names) - 1) : cmp(names[i], names[i + 1]) = -1

\* How often a name occurs in a sequence of names.
Occurrences(names, n) == Cardinality({ i \in 1..Len(names) : names[i] = n })

SameNames(xs, ys) ==
    /\ Len(xs) = Len(ys)
    /\ \A i \in 1..Len(xs) : Occurrences(xs, xs[i]) = Occurrences(ys, xs[i])

\* The thunk of dispatch constant c.
Thunk(c) ==
    << Instruction("I32Const", c), Instruction("Call", 0), Instruction("End", 0) >>

\* The constant pushed by the function the export entry at sorted position
\* k (0-based) is bound to: imported functions take the first indices, so
\* function index f is the Code-section body at slot f - (imports).
ReachedConstant(m, k) ==
    m.codes[(m.exports[k + 1].index - Len(m.imports)) + 1][1].arg

\* The exported function declarations of a namespace body.
ExportFnCount(body) == Cardinality({ i \in 1..Len(body) : body[i].kind = "ExportFn" })

\* The statements of the file that name a string-literal module "main".
MainStatements(m) ==
    { i \in 1..Len(m) : m[i].kind = "TsModule" /\ m[i].id = [kind |-> "Str", value |-> "main"] }

\* create_shims is past `parse_module(module)?` with Ok.
ExtractionOk == pc \in {"find", "emit", "create", "write"} \/ file # "absent"

\* The return type is one bare identifier: Foo, not Foo<T>, a.b or a | b.
BareIdentifier(rt) ==
    rt.ann = "TsTypeRef" /\ rt.type_name = "Ident" /\ ~rt.type_params

\* ------------------------------------------------------------------ C1
\* C1: in every emitted module of N functions, the export entries are the
\* declared names in name order, the entry at sorted position k is bound
\* to function index k+1, the Code body at slot k is <const k, call 0,
\* end>, and so the thunk reached through the export at sorted position k
\* pushes k.
C1_ExportReachesItsPosition ==
    Emitted =>
        LET N == Len(TheExports.functions)
            m == wasm_mod
        IN  /\ Len(m.exports) = N
            /\ Len(m.codes) = N
            /\ NonDecreasing(NamesOf(m.exports))
            /\ SameNames(NamesOf(m.exports), NamesOf(TheExports.functions))
            /\ \A k \in 0..(N - 1) :
                 /\ m.exports[k + 1].index = k + 1
                 /\ m.exports[k + 1].kind = "Func"
                 /\ m.codes[k + 1] = Thunk(k)
                 /\ ReachedConstant(m, k) = k

\* Two functions declared as z, a: the module is emitted and written.
C1_Witness ==
    /\ file = "written"
    /\ NamesOf(TheExports.functions) = << <<122>>, <<97>> >>

C3_ExportNamesStrictlyAscending ==
    Emitted => StrictlyAscending(NamesOf(wasm_mod.exports))

\* ------------------------------------------------------------------ C4
\* C4: the output file is created, and the module built, only after
\* parse_module returned Ok and a main interface was found; a run that
\* fails before that leaves no file, no module and no interface behind.
C4_NoEmissionBeforeExtraction ==
    /\ (file # "absent" \/ Emitted \/ exports # <<>>) =>
           /\ ~input.fatal
           /\ parse_module(input.module).ok
           /\ find_main(parse_module(input.module).val, 1).ok
           /\ exports = << find_main(parse_module(input.module).val, 1).val >>
    /\ (file # "absent") => Emitted
    /\ (pc \in {"returned", "panicked"} /\ (input.fatal \/ ~parse_module(input.module).ok
            \/ ~find_main(parse_module(input.module).val, 1).ok)) =>
           /\ file = "absent"
           /\ file_bytes = <<>>
           /\ ~Emitted
           /\ exports = <<>>
           /\ result # <<>> /\ ~result[1].ok

\* A run that found no main interface has returned.
C4_Witness ==
    /\ pc = "returned"
    /\ result = << Err("You need to declare a 'main' module", None) >>
    /\ file = "absent"

\* ------------------------------------------------------------------ C5
\* C5: extraction succeeds only if every top-level statement is a
\* namespace named main and every item of it is an exported function
\* declaration, and then there is one signature per item.
C5_RejectsOutsideSubset ==
    ExtractionOk =>
        /\ \A i \in 1..Len(module) :
             /\ module[i].kind = "TsModule"
             /\ module[i].id.value = "main"
             /\ \A j \in 1..Len(module[i].body) : module[i].body[j].kind = "ExportFn"
        /\ Len(interfaces) = Len(module)
        /\ \A i \in 1..Len(interfaces) :
             Len(interfaces[i].functions) = Len(module[i].body)

\* ------------------------------------------------------------------ C6
\* C6: the first namespace of the file, when not named main, makes
\* extraction fail with an error that carries the name found; when named
\* main, by identifier or by string literal, it is not rejected for its
\* name.
C6_NameCheck ==
    (pc \in {"find", "returned"} /\ module # <<>> /\ module[1].kind = "TsModule") =>
        IF module[1].id.value # "main"
        THEN result = << Err("Could not parse module with name", Some(module[1].id.value)) >>
        ELSE ~(result # <<>> /\ result[1].err.msg = "Could not parse module with name")

\* ------------------------------------------------------------------ C7
\* C7: an exported function declaration of main whose return type is not
\* one bare identifier makes extraction fail: with "Missing return type"
\* when there is no annotation, with "Illegal return type" otherwise.
C7_ReturnTypeCheck ==
    (pc \in {"find", "returned"} /\ module # <<>> /\ MainStatements(module) = {1}
        /\ module[1].body # <<>> /\ module[1].body[1].kind = "ExportFn") =>
        LET rt == module[1].body[1].return_type IN
        /\ rt.ann = "None" => result = << Err("Missing return type", None) >>
        /\ (rt.ann # "None" /\ ~BareIdentifier(rt)) =>
               result = << Err("Illegal return type", None) >>
        /\ (Len(interfaces) > 0 /\ Len(interfaces[1].functions) > 0) => BareIdentifier(rt)

\* ------------------------------------------------------------------ C8
\* C8: every Param of every extracted Interface has a type of the wasm
\* value types, and every Signature has exactly one result.
ValTypes == { "I32", "I64", "F32", "F64" }

C8_ParamTypesRecognized ==
    \A i \in 1..Len(interfaces) :
        \A f \in 1..Len(interfaces[i].functions) :
            LET sig == interfaces[i].functions[f] IN
            /\ Len(sig.results) = 1
            /\ \A p \in 1..Len(sig.params) : sig.params[p].ptype \in ValTypes
            /\ \A r \in 1..Len(sig.results) : sig.results[r].ptype \in ValTypes

\* ------------------------------------------------------------------ C9
\* C9: an input with syntax diagnostics never reaches extraction or
\* emission: once the file is loaded and parsed, every diagnostic is
\* logged and create_shims fails with the aggregate error.
C9_DiagnosticsStopTheRun ==
    (input.diags > 0 /\ ~input.fatal) =>
        /\ pc \notin {"extract", "find", "emit", "create", "write"}
        /\ (pc = "returned" /\ result # << Err("io: load_file", None) >>) =>
               /\ result = << Err("Failed to parse typescript interface file.", None) >>
               /\ logged = input.diags

\* ----------------------------------------------------------------- C10
\* C10 as stated: whenever the functions are not declared in name order,
\* some export reaches a thunk whose constant differs from the export's
\* position in the sorted export list.
C10_Original ==
    (Emitted /\ ~NonDecreasing(NamesOf(TheExports.functions))) =>
        \E k \in 0..(Len(wasm_mod.exports) - 1) : ReachedConstant(wasm_mod, k) # k

\* C10 (amended): every export reaches the thunk whose constant is the
\* export's position in the sorted export list, whatever the declaration
\* order; when the functions are declared in name order that position is
\* also where the name is declared, and when they are not, some export
\* reaches a constant at which no function of its name is declared.
C10_ConstantIsSortedPosition ==
    Emitted =>
        LET decl == NamesOf(TheExports.functions)
            m == wasm_mod
            N == Len(m.exports)
        IN  /\ N = Len(decl)
            /\ NonDecreasing(NamesOf(m.exports))
            /\ \A k \in 0..(N - 1) :
                 /\ m.exports[k + 1].index - Len(m.imports) = k
                 /\ ReachedConstant(m, k) = k
            /\ NonDecreasing(decl) =>
                 \A k \in 0..(N - 1) : decl[ReachedConstant(m, k) + 1] = m.exports[k + 1].name
            /\ ~NonDecreasing(decl) =>
                 \E k \in 0..(N - 1) : decl[ReachedConstant(m, k) + 1] # m.exports[k + 1].name

\* Declared as al, a: export a reaches constant 0, where al is declared.
C10_Witness ==
    /\ Emitted
    /\ NamesOf(TheExports.functions) = << <<97, 108>>, <<97>> >>
    /\ wasm_mod.exports[1].name = <<97>>
    /\ ReachedConstant(wasm_mod, 0) = 0

====
